---- MODULE Spec2Model ----
(***************************************************************************)
(* A model of analysis_of_states.py: the batch job that joins the key,     *)
(* population, income and sale-price tables by state, ranks the states on  *)
(* each metric and writes output.csv.                                      *)
(*                                                                         *)
(* Conventions.  A string whose characters the program inspects (a table   *)
(* cell, a rank, a formatted number) is a sequence of one-character        *)
(* strings; identifiers and names that are only compared or looked up      *)
(* (key_row, state names, column names) are atoms.  A table cell is a      *)
(* tagged record: NaN, Float(n) or Text(s).  Every number the inputs can   *)
(* denote is a non-negative integer, so a float is held as that integer;   *)
(* the affordability ratio, which has one decimal, is held in tenths.      *)
(***************************************************************************)
EXTENDS Integers, Sequences, FiniteSets, TLC

VARIABLES
    keys_df,                 \* KEYS.csv as read (line 45): rows [key_row, alternative_name]
    census_pop_df,           \* row 1 of CENSUS_POPULATION_STATE.csv: state name -> cell
    census_mhi_df,           \* row 1 of CENSUS_MHI_STATE.csv: columns [state_name, cell], in file order
    redfin_df,               \* REDFIN_MEDIAN_SALE_PRICE.csv: [has_month, rows [Region, cell]]
    state_keys,              \* line 52
    output_df,               \* the data frame being built: a sequence of rows, column -> cell
    pop_data,                \* line 57: key_row -> population
    mhi_data,                \* line 96: key_row -> income
    median_sale_price_data,  \* line 139: key_row -> sale price
    output_csv,              \* output.csv: [header, rows], or NotWritten
    pc,                      \* the position of main(), or of the function call under test
    fn_arg,                  \* the argument of the function call under test
    fn_ret                   \* its result

vars == <<keys_df, census_pop_df, census_mhi_df, redfin_df, state_keys, output_df,
          pop_data, mhi_data, median_sale_price_data, output_csv, pc, fn_arg, fn_ret>>

main_vars == <<keys_df, census_pop_df, census_mhi_df, redfin_df, state_keys, output_df,
               pop_data, mhi_data, median_sale_price_data, output_csv>>

inputs == <<keys_df, census_pop_df, census_mhi_df, redfin_df>>

(***************************************************************************)
(* Bounds of the model.                                                    *)
(***************************************************************************)
\* The longest key table of the key-table scenarios.
MaxKeys == 3
\* The largest rank handed to the ordinal-suffix formatter on its own.
MaxRank == 125
\* The longest enumerated dollar string (the spec's examples are added to these).
MaxDollarLen == 3

(***************************************************************************)
(* Cells and strings.                                                      *)
(***************************************************************************)
NaN      == [t |-> "nan", v |-> 0, s |-> <<>>]
Float(n) == [t |-> "float", v |-> n, s |-> <<>>]
Text(s)  == [t |-> "str", v |-> 0, s |-> s]
\* A raised ValueError, as the result of a conversion.
ValueError == [t |-> "ValueError", v |-> 0, s |-> <<>>]

isna(x)  == x = NaN
notna(x) == x # NaN

\* A missing alternative_name: read_csv turns an empty (or "NaN") field into NaN.
NA == "NaN"

Digit == <<"0", "1", "2", "3", "4", "5", "6", "7", "8", "9">>
DigitChars == {Digit[i] : i \in 1..10}
DigitVal(c) == (CHOOSE i \in 1..10 : Digit[i] = c) - 1

\* Code points of the characters the inputs use (string comparison is by code point).
CharCode == [c \in {"$", "(", ")", "*", ",", "K", "X"} \cup DigitChars |->
               CASE c = "$" -> 36 [] c = "(" -> 40 [] c = ")" -> 41 [] c = "*" -> 42
                 [] c = "," -> 44 [] c = "K" -> 75 [] c = "X" -> 88
                 [] OTHER -> 48 + DigitVal(c)]

\* str(n) of a non-negative int.
RECURSIVE IntStr(_)
IntStr(n) == IF n < 10 THEN <<Digit[n + 1]>>
             ELSE Append(IntStr(n \div 10), Digit[(n % 10) + 1])

RECURSIVE DigitsVal(_)
DigitsVal(s) == IF s = <<>> THEN 0
                ELSE 10 * DigitsVal(SubSeq(s, 1, Len(s) - 1)) + DigitVal(s[Len(s)])

\* s.replace(c, '')
RECURSIVE Remove(_, _)
Remove(s, c) == IF s = <<>> THEN <<>>
                ELSE IF s[1] = c THEN Remove(Tail(s), c)
                ELSE <<s[1]>> \o Remove(Tail(s), c)

\* c in s
Contains(s, c) == \E i \in 1..Len(s) : s[i] = c

\* s.endswith(t)
EndsWith(s, t) == Len(s) >= Len(t) /\ SubSeq(s, Len(s) - Len(t) + 1, Len(s)) = t

\* s < t for Python strings
RECURSIVE StrLess(_, _)
StrLess(a, b) == IF b = <<>> THEN FALSE
                 ELSE IF a = <<>> THEN TRUE
                 ELSE IF a[1] = b[1] THEN StrLess(Tail(a), Tail(b))
                 ELSE CharCode[a[1]] < CharCode[b[1]]

\* float(s): over the characters of the inputs (no sign, point, exponent or blank
\* among them) the float literals are the non-empty digit strings.
float(s) == IF s # <<>> /\ \A i \in 1..Len(s) : s[i] \in DigitChars
            THEN Float(DigitsVal(s))
            ELSE ValueError

\* f"{n:,}": the digits in groups of three
RECURSIVE Commas(_)
Commas(s) == IF Len(s) <= 3 THEN s
             ELSE Commas(SubSeq(s, 1, Len(s) - 3)) \o <<",">> \o SubSeq(s, Len(s) - 2, Len(s))

FormatThousands(n) == Commas(IntStr(n))

(***************************************************************************)
(* clean_dollar_amount (lines 21-32).  A cell of a numeric column passes   *)
(* through str and float unchanged.                                        *)
(***************************************************************************)
clean_dollar_amount(value) ==
    IF isna(value) \/ value = Text(<<>>) THEN NaN
    ELSE IF value.t = "float" THEN value
    ELSE LET stripped == Remove(value.s, "$")
         IN  IF Contains(stripped, "K")
             THEN LET f == float(Remove(stripped, "K"))
                  IN  IF f = ValueError THEN ValueError ELSE Float(f.v * 1000)
             ELSE float(stripped)

(***************************************************************************)
(* The ordinal suffix appended to a rank (the lambda of lines 85-90, and   *)
(* of each later ranking).                                                 *)
(***************************************************************************)
ordinal_suffix_plain(x) ==
    x \o (IF EndsWith(x, <<"1">>) THEN <<"s", "t">>
          ELSE IF EndsWith(x, <<"2">>) THEN <<"n", "d">>
          ELSE IF EndsWith(x, <<"3">>) THEN <<"r", "d">>
          ELSE <<"t", "h">>)

ordinal_suffix(x) ==
    x \o (IF EndsWith(x, <<"1">>) /\ ~EndsWith(x, <<"1", "1">>) THEN <<"s", "t">>
          ELSE IF EndsWith(x, <<"2">>) /\ ~EndsWith(x, <<"1", "2">>) THEN <<"n", "d">>
          ELSE IF EndsWith(x, <<"3">>) /\ ~EndsWith(x, <<"1", "3">>) THEN <<"r", "d">>
          ELSE <<"t", "h">>)

(***************************************************************************)
(* Series.rank(ascending=False, method='min'): a missing value has no      *)
(* rank; any other value's rank is 1 plus the number of values of the      *)
(* column that are greater.  Floats compare by value, strings (an object   *)
(* column) as Python strings.                                              *)
(***************************************************************************)
CellGreater(a, b) == IF a.t = "float" THEN a.v > b.v ELSE StrLess(b.s, a.s)

rank_dense(col, i) ==
    IF isna(col[i]) THEN NaN
    ELSE Float(1 + Cardinality({col[j] : j \in {k \in DOMAIN col :
                      notna(col[k]) /\ CellGreater(col[k], col[i])}}))

rank(col, i) ==
    IF isna(col[i]) THEN NaN
    ELSE Float(1 + Cardinality({j \in DOMAIN col :
                      notna(col[j]) /\ CellGreater(col[j], col[i])}))

\* .fillna(0).astype(int).astype(str), then the suffix lambda, of one rank
rank_text(r) == ordinal_suffix(IntStr(IF isna(r) THEN 0 ELSE r.v))

\* The rank column of a column of values.
rank_column(col) == [i \in DOMAIN col |-> Text(rank_text(rank(col, i)))]

(***************************************************************************)
(* Data-frame operations.                                                  *)
(***************************************************************************)
Column(df, c) == [i \in DOMAIN df |-> df[i][c]]

\* df[c] = vals
WithColumn(df, c, vals) == [i \in DOMAIN df |-> (c :> vals[i]) @@ df[i]]

\* Series.map(dict)
MapDict(d, k) == IF k \in DOMAIN d THEN Float(d[k]) ELSE NaN

\* d[k] = v
DictSet(d, k, v) == (k :> v) @@ d

EmptyDict == [k \in {} |-> 0]

\* state_keys[state_keys['alternative_name'] == name]['key_row'].values[0]
first_key_row(keys, name) ==
    keys[CHOOSE i \in DOMAIN keys :
            /\ keys[i].alternative_name = name
            /\ \A j \in 1..(i - 1) : keys[j].alternative_name # name].key_row

\* name in state_keys['alternative_name'].values
name_in_keys(keys, name) == \E i \in DOMAIN keys : keys[i].alternative_name = name

(***************************************************************************)
(* Population (lines 57-77).                                               *)
(***************************************************************************)
Stars == Text(<<"*", "*", "*", "*", "*">>)

\* A faulty variant: a cell that is not a number counts as a population of 0.
parse_population_zero(total_pop) ==
    IF notna(total_pop) /\ total_pop # Text(<<>>)
    THEN IF total_pop = Stars THEN NaN
         ELSE IF total_pop.t = "float" THEN total_pop
         ELSE LET f == float(Remove(total_pop.s, ","))
              IN  IF f = ValueError THEN Float(0) ELSE f
    ELSE NaN

\* Lines 71-77: the population of a cell, NaN when the loop assigns nothing.
parse_population(total_pop) ==
    IF notna(total_pop) /\ total_pop # Text(<<>>)
    THEN IF total_pop = Stars THEN NaN
         ELSE IF total_pop.t = "float" THEN total_pop
         ELSE LET f == float(Remove(total_pop.s, ","))
              IN  IF f = ValueError THEN NaN ELSE f
    ELSE NaN

\* Lines 60-77 for one row of state_keys.  The column f"{state_name}!!Estimate"
\* is in census_pop_df iff state_name is in the table's domain.
population_of(row, pop_df) ==
    IF row.alternative_name = NA THEN NaN
    ELSE IF row.alternative_name \in DOMAIN pop_df
         THEN parse_population(pop_df[row.alternative_name])
         ELSE NaN

RECURSIVE pop_loop(_, _, _)
pop_loop(rows, pop_df, acc) ==
    IF rows = <<>> THEN acc
    ELSE LET p == population_of(Head(rows), pop_df)
         IN  pop_loop(Tail(rows), pop_df,
                      IF isna(p) THEN acc ELSE DictSet(acc, Head(rows).key_row, p.v))

(***************************************************************************)
(* Income (lines 96-108).  The loop's result is [raised, data]: float()    *)
(* of a string that is no number, commas removed, raises out of main().    *)
(***************************************************************************)
parse_income(median_income) ==
    IF median_income.t = "float" THEN median_income
    ELSE IF float(median_income.s) # ValueError THEN float(median_income.s)
    ELSE float(Remove(median_income.s, ","))

RECURSIVE mhi_loop(_, _, _)
mhi_loop(cols, keys, acc) ==
    IF cols = <<>> THEN [raised |-> FALSE, data |-> acc]
    ELSE LET col == Head(cols)
             median_income == col.cell
         IN  IF /\ name_in_keys(keys, col.state_name)
                /\ notna(median_income) /\ median_income # Text(<<>>)
             THEN LET f == parse_income(median_income)
                  IN  IF f = ValueError THEN [raised |-> TRUE, data |-> acc]
                      ELSE mhi_loop(Tail(cols), keys,
                                    DictSet(acc, first_key_row(keys, col.state_name), f.v))
             ELSE mhi_loop(Tail(cols), keys, acc)

(***************************************************************************)
(* Sale price (lines 129-146).                                             *)
(***************************************************************************)
RECURSIVE price_loop(_, _, _, _)
price_loop(rows, has_month, keys, acc) ==
    IF rows = <<>> THEN [raised |-> FALSE, data |-> acc]
    ELSE LET row == Head(rows)
         IN  IF /\ name_in_keys(keys, row.Region)
                /\ has_month /\ notna(row.cell) /\ row.cell # Text(<<>>)
             THEN LET f == clean_dollar_amount(row.cell)
                  IN  IF f = ValueError THEN [raised |-> TRUE, data |-> acc]
                      ELSE price_loop(Tail(rows), has_month, keys,
                                      DictSet(acc, first_key_row(keys, row.Region), f.v))
             ELSE price_loop(Tail(rows), has_month, keys, acc)

(***************************************************************************)
(* Formatting and the affordability ratio.                                 *)
(***************************************************************************)
\* f"${int(x):,}" if pd.notna(x) else ""  (lines 112-114, 150-152)
format_dollars(x) == IF notna(x) THEN Text(<<"$">> \o FormatThousands(x.v)) ELSE Text(<<>>)

\* f"{int(x):,}" if pd.notna(x) else ""  (lines 184-186)
format_population(x) == IF notna(x) THEN Text(FormatThousands(x.v)) ELSE Text(<<>>)

\* round(1) of num / den, in tenths: to the nearest tenth, a tie to the even one.
round_tenths(num, den) ==
    LET q == (10 * num) \div den
        r == (10 * num) % den
    IN  IF 2 * r < den THEN q
        ELSE IF 2 * r > den THEN q + 1
        ELSE IF q % 2 = 0 THEN q ELSE q + 1

\* A faulty variant: the quotient cut to one decimal instead of rounded.
house_affordability_ratio_cut(income, price) ==
    IF isna(income) \/ isna(price) THEN NaN
    ELSE Float((10 * income.v) \div price.v)

\* Lines 167-169.  A sale price of 0 is not among the inputs.
house_affordability_ratio(income, price) ==
    IF isna(income) \/ isna(price) THEN NaN
    ELSE Float(round_tenths(income.v, price.v))

\* The blurbs (lines 92-94, 125-127, 163-165, 180-182): the key, which the code
\* title-cases, the rank and the sentence's fixed words.
population_blurb(row) ==
    <<row["key_row"], " is ", row["population_rank"].s,
      " in the nation in population among states, DC, and Puerto Rico.">>
median_household_income_blurb(row) ==
    <<row["key_row"], " is ", row["median_household_income_rank"].s>>
median_sale_price_blurb(row) ==
    <<row["key_row"], " has the ", row["median_sale_price_rank"].s,
      " highest median sale price on the list">>
house_affordability_blurb(row) ==
    <<row["key_row"], " is ", row["house_affordability_rank"].s, " most affordable">>

\* The f-string that fills a blurb column.
blurb_of(blurb_col, row) ==
    CASE blurb_col = "population_blurb" -> population_blurb(row)
      [] blurb_col = "median_household_income_blurb" -> median_household_income_blurb(row)
      [] blurb_col = "median_sale_price_blurb" -> median_sale_price_blurb(row)
      [] blurb_col = "house_affordability_blurb" -> house_affordability_blurb(row)

\* df[rank_col] = the ranks of df[value_col]; df[blurb_col] = the blurb of each row
RankAndBlurb(df, value_col, rank_col, blurb_col) ==
    LET ranked == WithColumn(df, rank_col, rank_column(Column(df, value_col)))
    IN  WithColumn(ranked, blurb_col, [i \in DOMAIN ranked |-> blurb_of(blurb_col, ranked[i])])

\* Lines 188-202.
final_columns ==
    <<"key_row", "census_population", "population_rank", "population_blurb",
      "median_household_income", "median_household_income_rank",
      "median_household_income_blurb", "median_sale_price_formatted",
      "median_sale_price_rank", "median_sale_price_blurb",
      "house_affordability_ratio", "house_affordability_rank",
      "house_affordability_blurb">>

\* to_csv's text of one cell: a missing value is empty, a string is itself, the
\* ratio (the one float column written) is its repr, e.g. 0.2.
csv_field(x) ==
    CASE x.t = "nan" -> <<>>
      [] x.t = "str" -> x.s
      [] x.t = "float" -> IntStr(x.v \div 10) \o <<".">> \o IntStr(x.v % 10)

\* The columns that hold atoms or blurbs, written as they are.
RawColumns == {"key_row", "population_blurb", "median_household_income_blurb",
               "median_sale_price_blurb", "house_affordability_blurb"}

csv_row(row, columns) ==
    [c \in {columns[i] : i \in DOMAIN columns} |->
        IF c \in RawColumns THEN row[c] ELSE csv_field(row[c])]

NotWritten == [header |-> <<>>, rows |-> <<>>]

(***************************************************************************)
(* The input files.                                                        *)
(***************************************************************************)
UnitedStates == [key_row |-> "united_states", alternative_name |-> "United States"]
Alabama == [key_row |-> "alabama", alternative_name |-> "Alabama"]
Alaska  == [key_row |-> "alaska", alternative_name |-> "Alaska"]
Arizona == [key_row |-> "arizona", alternative_name |-> "Arizona"]

StateNames == {"Alabama", "Alaska", "Arizona"}
NameOrder == <<"Alabama", "Alaska", "Arizona">>

\* Key records: the nationwide row, the states, a record without a display name,
\* and a record that repeats another's display name.
KeyRecords == {UnitedStates, Alabama, Alaska, Arizona,
               [key_row |-> "alabama", alternative_name |-> NA],
               [key_row |-> "alaska", alternative_name |-> "Alabama"]}

KeyTables == UNION {[1..n -> KeyRecords] : n \in 0..MaxKeys}
StandardKeys == <<UnitedStates, Alabama, Alaska, Arizona>>

NotANumber == Text(<<"(", "X", ")">>)
Pop9000  == Text(<<"9", ",", "0", "0", "0">>)
Pop10000 == Text(<<"1", "0", ",", "0", "0", "0">>)
Pop1000  == Text(<<"1", ",", "0", "0", "0">>)
Income60000 == Float(60000)
Income50000 == Text(<<"5", "0", ",", "0", "0", "0">>)
Price300K == Text(<<"$", "3", "0", "0", "K">>)
Price200K == Text(<<"$", "2", "0", "0", "K">>)
Price131K == Text(<<"$", "1", "3", "1", "K">>)
Price55000 == Text(<<"$", "5", "5", ",", "0", "0", "0">>)

MhiTable(f) == [i \in DOMAIN NameOrder |-> [state_name |-> NameOrder[i], cell |-> f[NameOrder[i]]]]
RedfinRows(f) == [i \in DOMAIN NameOrder |-> [Region |-> NameOrder[i], cell |-> f[NameOrder[i]]]]

\* Key tables of every shape, over population tables in which Alabama's column is
\* absent, empty, the sentinel, no number or a number, and Alaska's absent or not.
KeyScenarios ==
    [keys : KeyTables,
     pop  : {[n \in D |-> IF n = "Alabama" THEN a ELSE IF n = "Alaska" THEN Pop10000 ELSE Pop1000] :
                D \in {S \in SUBSET StateNames : "Arizona" \in S},
                a \in {NaN, Stars, NotANumber, Pop9000}},
     mhi  : {<<[state_name |-> "Alabama", cell |-> Income60000],
               [state_name |-> "Alaska", cell |-> Income50000]>>},
     redfin : {[has_month |-> TRUE,
                rows |-> <<[Region |-> "Alabama", cell |-> Price300K],
                           [Region |-> "Arizona", cell |-> Price200K]>>]}]

\* The three states, each with every combination of present and missing values.
MetricScenarios ==
    [keys : {StandardKeys},
     pop  : [StateNames -> {Pop9000, Pop10000, Stars}],
     mhi  : {MhiTable(f) : f \in [StateNames -> {Income60000, Income50000, NaN}]},
     redfin : {[has_month |-> TRUE, rows |-> RedfinRows(f)] :
                  f \in [StateNames -> {Price300K, Price200K, NaN}]}]

\* Cells that are no number, a month column that is absent, names outside the key table.
MalformedScenarios ==
    [keys : {StandardKeys},
     pop  : {[n \in StateNames |-> IF n = "Alabama" THEN a ELSE Pop10000] :
                a \in {Pop9000, NotANumber}},
     mhi  : {<<[state_name |-> "Texas", cell |-> NotANumber],
               [state_name |-> "Alabama", cell |-> a],
               [state_name |-> "Alaska", cell |-> Income50000]>> :
                a \in {Income60000, NotANumber, Text(Remove(Income50000.s, ","))}},
     redfin : {[has_month |-> h,
                rows |-> <<[Region |-> "Texas", cell |-> Price55000],
                           [Region |-> "Alabama", cell |-> a],
                           [Region |-> "Alaska", cell |-> Price200K]>>] :
                  h \in BOOLEAN, a \in {Price300K, Price131K, Price55000}}]

Scenarios == KeyScenarios \cup MetricScenarios \cup MalformedScenarios

(***************************************************************************)
(* main(): the state after the four files are read (lines 45-50), then one *)
(* action per stage of the pipeline.                                       *)
(***************************************************************************)
Init ==
    /\ \E sc \in Scenarios :
          /\ keys_df = sc.keys
          /\ census_pop_df = sc.pop
          /\ census_mhi_df = sc.mhi
          /\ redfin_df = sc.redfin
    /\ state_keys = <<>>
    /\ output_df = <<>>
    /\ pop_data = EmptyDict
    /\ mhi_data = EmptyDict
    /\ median_sale_price_data = EmptyDict
    /\ output_csv = NotWritten
    /\ pc = "select_state_keys"
    /\ fn_arg = NaN
    /\ fn_ret = NaN

\* Lines 52-55.
SelectStateKeys ==
    /\ pc = "select_state_keys"
    /\ state_keys' = SelectSeq(keys_df, LAMBDA r : r.key_row # "united_states")
    /\ output_df' = [i \in DOMAIN state_keys' |-> ("key_row" :> state_keys'[i].key_row)]
    /\ pc' = "build_pop_data"
    /\ UNCHANGED <<inputs, pop_data, mhi_data, median_sale_price_data, output_csv,
                   fn_arg, fn_ret>>

\* Lines 57-77.
BuildPopData ==
    /\ pc = "build_pop_data"
    /\ pop_data' = pop_loop(state_keys, census_pop_df, EmptyDict)
    /\ pc' = "filter_population"
    /\ UNCHANGED <<inputs, state_keys, output_df, mhi_data, median_sale_price_data,
                   output_csv, fn_arg, fn_ret>>

\* Lines 79-81.
FilterPopulation ==
    /\ pc = "filter_population"
    /\ output_df' =
          SelectSeq(WithColumn(output_df, "census_population",
                               [i \in DOMAIN output_df |->
                                   MapDict(pop_data, output_df[i]["key_row"])]),
                    LAMBDA r : notna(r["census_population"]))
    /\ pc' = "population_rank"
    /\ UNCHANGED <<inputs, state_keys, pop_data, mhi_data, median_sale_price_data,
                   output_csv, fn_arg, fn_ret>>

\* Lines 83-94.
PopulationRank ==
    /\ pc = "population_rank"
    /\ output_df' = RankAndBlurb(output_df, "census_population", "population_rank",
                                 "population_blurb")
    /\ pc' = "build_mhi_data"
    /\ UNCHANGED <<inputs, state_keys, pop_data, mhi_data, median_sale_price_data,
                   output_csv, fn_arg, fn_ret>>

\* Lines 96-108: the ValueError of line 108 is not caught and ends the run.
BuildMhiData ==
    /\ pc = "build_mhi_data"
    /\ LET r == mhi_loop(census_mhi_df, state_keys, EmptyDict)
       IN  /\ mhi_data' = r.data
           /\ pc' = IF r.raised THEN "raised" ELSE "income_columns"
    /\ UNCHANGED <<inputs, state_keys, output_df, pop_data, median_sale_price_data,
                   output_csv, fn_arg, fn_ret>>

\* Lines 110-127.
IncomeColumns ==
    /\ pc = "income_columns"
    /\ LET numeric == WithColumn(output_df, "median_household_income_numeric",
                         [i \in DOMAIN output_df |-> MapDict(mhi_data, output_df[i]["key_row"])])
           formatted == WithColumn(numeric, "median_household_income",
                         [i \in DOMAIN numeric |->
                             format_dollars(numeric[i]["median_household_income_numeric"])])
       IN  output_df' = RankAndBlurb(formatted, "median_household_income_numeric",
                                     "median_household_income_rank",
                                     "median_household_income_blurb")
    /\ pc' = "build_sale_price_data"
    /\ UNCHANGED <<inputs, state_keys, pop_data, mhi_data, median_sale_price_data,
                   output_csv, fn_arg, fn_ret>>

\* Lines 129-146: a ValueError of clean_dollar_amount is not caught and ends the run.
BuildSalePriceData ==
    /\ pc = "build_sale_price_data"
    /\ LET r == price_loop(redfin_df.rows, redfin_df.has_month, state_keys, EmptyDict)
       IN  /\ median_sale_price_data' = r.data
           /\ pc' = IF r.raised THEN "raised" ELSE "sale_price_columns"
    /\ UNCHANGED <<inputs, state_keys, output_df, pop_data, mhi_data, output_csv,
                   fn_arg, fn_ret>>

\* Lines 148-165.
SalePriceColumns ==
    /\ pc = "sale_price_columns"
    /\ LET numeric == WithColumn(output_df, "median_sale_price",
                         [i \in DOMAIN output_df |->
                             MapDict(median_sale_price_data, output_df[i]["key_row"])])
           formatted == WithColumn(numeric, "median_sale_price_formatted",
                         [i \in DOMAIN numeric |-> format_dollars(numeric[i]["median_sale_price"])])
       IN  output_df' = RankAndBlurb(formatted, "median_sale_price", "median_sale_price_rank",
                                     "median_sale_price_blurb")
    /\ pc' = "affordability"
    /\ UNCHANGED <<inputs, state_keys, pop_data, mhi_data, median_sale_price_data,
                   output_csv, fn_arg, fn_ret>>

\* Lines 167-182.
Affordability ==
    /\ pc = "affordability"
    /\ LET ratio == WithColumn(output_df, "house_affordability_ratio",
                       [i \in DOMAIN output_df |->
                           house_affordability_ratio(
                               output_df[i]["median_household_income_numeric"],
                               output_df[i]["median_sale_price"])])
       IN  output_df' = RankAndBlurb(ratio, "house_affordability_ratio",
                                     "house_affordability_rank",
                                     "house_affordability_blurb")
    /\ pc' = "format_population"
    /\ UNCHANGED <<inputs, state_keys, pop_data, mhi_data, median_sale_price_data,
                   output_csv, fn_arg, fn_ret>>

\* Lines 184-186: census_population becomes a column of strings.
FormatPopulation ==
    /\ pc = "format_population"
    /\ output_df' = WithColumn(output_df, "census_population",
                       [i \in DOMAIN output_df |->
                           format_population(output_df[i]["census_population"])])
    /\ pc' = "second_pass"
    /\ UNCHANGED <<inputs, state_keys, pop_data, mhi_data, median_sale_price_data,
                   output_csv, fn_arg, fn_ret>>

\* Lines 205-257: the second filter and the second ranking of the four metrics.
SecondPass ==
    /\ pc = "second_pass"
    /\ LET kept == SelectSeq(output_df, LAMBDA r : notna(r["census_population"]))
           p == RankAndBlurb(kept, "census_population", "population_rank",
                             "population_blurb")
           m == RankAndBlurb(p, "median_household_income_numeric",
                             "median_household_income_rank",
                             "median_household_income_blurb")
           q == RankAndBlurb(m, "median_sale_price", "median_sale_price_rank",
                             "median_sale_price_blurb")
       IN  output_df' = RankAndBlurb(q, "house_affordability_ratio",
                                     "house_affordability_rank",
                                     "house_affordability_blurb")
    /\ pc' = "write"
    /\ UNCHANGED <<inputs, state_keys, pop_data, mhi_data, median_sale_price_data,
                   output_csv, fn_arg, fn_ret>>

\* Lines 259-263.
WriteCsv ==
    /\ pc = "write"
    /\ output_csv' = [header |-> final_columns,
                      rows |-> [i \in DOMAIN output_df |-> csv_row(output_df[i], final_columns)]]
    /\ pc' = "done"
    /\ UNCHANGED <<inputs, state_keys, output_df, pop_data, mhi_data,
                   median_sale_price_data, fn_arg, fn_ret>>

Next ==
    \/ SelectStateKeys
    \/ BuildPopData
    \/ FilterPopulation
    \/ PopulationRank
    \/ BuildMhiData
    \/ IncomeColumns
    \/ BuildSalePriceData
    \/ SalePriceColumns
    \/ Affordability
    \/ FormatPopulation
    \/ SecondPass
    \/ WriteCsv

Spec == Init /\ [][Next]_vars

TypeOK == pc \in {"select_state_keys", "build_pop_data", "filter_population",
                  "population_rank", "build_mhi_data", "income_columns",
                  "build_sale_price_data", "sale_price_columns", "affordability",
                  "format_population", "second_pass", "write", "done", "raised"}

(***************************************************************************)
(* The two value cleaners on their own: one call, on an argument drawn     *)
(* from a bounded set.                                                     *)
(***************************************************************************)
InitCall(position, args) ==
    /\ keys_df = <<>>
    /\ census_pop_df = EmptyDict
    /\ census_mhi_df = <<>>
    /\ redfin_df = [has_month |-> FALSE, rows |-> <<>>]
    /\ state_keys = <<>>
    /\ output_df = <<>>
    /\ pop_data = EmptyDict
    /\ mhi_data = EmptyDict
    /\ median_sale_price_data = EmptyDict
    /\ output_csv = NotWritten
    /\ pc = position
    /\ fn_arg \in args
    /\ fn_ret = NaN

\* A rank as Series.rank gives it: a whole number from 1 up, or missing.
InitOrdinal == InitCall("ordinal_call", {NaN} \cup {Float(n) : n \in 1..MaxRank})

FormatRank ==
    /\ pc = "ordinal_call"
    /\ fn_ret' = Text(rank_text(fn_arg))
    /\ pc' = "ordinal_done"
    /\ UNCHANGED <<main_vars, fn_arg>>

SpecOrdinal == InitOrdinal /\ [][FormatRank]_vars

DollarAlphabet == {"$", "1", "5", "0", ",", "K"}
DollarInputs ==
    {NaN, Price131K, Price55000, Price300K}
        \cup {Text(s) : s \in UNION {[1..n -> DollarAlphabet] : n \in 0..MaxDollarLen}}

InitDollar == InitCall("dollar_call", DollarInputs)

CleanDollarAmount ==
    /\ pc = "dollar_call"
    /\ fn_ret' = clean_dollar_amount(fn_arg)
    /\ pc' = "dollar_done"
    /\ UNCHANGED <<main_vars, fn_arg>>

SpecDollar == InitDollar /\ [][CleanDollarAmount]_vars

(***************************************************************************)
(* What the properties below speak of: the table written, and the numbers  *)
(* the run joined to each key.                                             *)
(***************************************************************************)
Written == pc = "done"
Rows == output_csv.rows
RowIds == DOMAIN output_csv.rows
Key(i) == Rows[i]["key_row"]

HasIncome(i) == Key(i) \in DOMAIN mhi_data
HasPrice(i)  == Key(i) \in DOMAIN median_sale_price_data
Population(i) == pop_data[Key(i)]
Income(i) == mhi_data[Key(i)]
Price(i)  == median_sale_price_data[Key(i)]

\* The text of a number of tenths, e.g. 2 is 0.2 and 50 is 5.0.
TenthsText(r) == IntStr(r \div 10) \o <<".">> \o IntStr(r % 10)
\* The number of tenths a text such as 0.2 denotes.
TenthsOf(text) == DigitsVal(Remove(text, "."))

\* r tenths is num / den rounded to one decimal (a tie goes to the even tenth).
IsRoundedTenths(r, num, den) ==
    LET d == 10 * num - r * den
        a == IF d < 0 THEN 0 - d ELSE d
    IN  /\ 2 * a <= den
        /\ (2 * a = den => r % 2 = 0)

\* The two tenths next to num / den.
NearTenths(num, den) == {(10 * num) \div den, (10 * num) \div den + 1}

\* The English ordinal of n.
Ordinal(n) ==
    IntStr(n) \o (IF n % 100 \in {11, 12, 13} THEN <<"t", "h">>
                  ELSE IF n % 10 = 1 THEN <<"s", "t">>
                  ELSE IF n % 10 = 2 THEN <<"n", "d">>
                  ELSE IF n % 10 = 3 THEN <<"r", "d">>
                  ELSE <<"t", "h">>)

Metrics == {"population", "income", "price", "ratio"}
NumericMetrics == {"income", "price", "ratio"}

HasValue(m, i) ==
    CASE m = "population" -> TRUE
      [] m = "income" -> HasIncome(i)
      [] m = "price" -> HasPrice(i)
      [] m = "ratio" -> HasIncome(i) /\ HasPrice(i)

Value(m, i) ==
    CASE m = "population" -> Population(i)
      [] m = "income" -> Income(i)
      [] m = "price" -> Price(i)
      [] m = "ratio" -> TenthsOf(Rows[i]["house_affordability_ratio"])

RankOf(m, i) ==
    CASE m = "population" -> Rows[i]["population_rank"]
      [] m = "income" -> Rows[i]["median_household_income_rank"]
      [] m = "price" -> Rows[i]["median_sale_price_rank"]
      [] m = "ratio" -> Rows[i]["house_affordability_rank"]

Valued(m) == {i \in RowIds : HasValue(m, i)}

PopulationTextGreater(j, i) ==
    StrLess(Rows[i]["census_population"], Rows[j]["census_population"])

Higher(m, j, i) ==
    IF m = "population" THEN PopulationTextGreater(j, i) ELSE Value(m, j) > Value(m, i)

C3_NoDuplicateKeys ==
    Written => \A i, j \in RowIds : i # j => Key(i) # Key(j)

(***************************************************************************)
(* C4                                                                      *)
(***************************************************************************)
\* A text that is a number once its thousands separators are removed.
IsNumberText(s) ==
    /\ \E i \in 1..Len(s) : s[i] \in DigitChars
    /\ \A i \in 1..Len(s) : s[i] \in DigitChars \cup {","}

\* A key record that yields a population: it has a display name, the population
\* table has that name's column, and the cell is a number.
YieldsPopulation(rec) ==
    /\ rec.alternative_name # NA
    /\ rec.alternative_name \in DOMAIN census_pop_df
    /\ LET cell == census_pop_df[rec.alternative_name]
       IN  /\ cell # NaN
           /\ cell # Stars
           /\ cell.t = "str" /\ IsNumberText(cell.s)

KeyRecordsOf(k) == {keys_df[n] : n \in {x \in DOMAIN keys_df : keys_df[x].key_row = k}}

\* C4: every written row's key_row is a key of the key table other than
\* united_states and has a population: some record of that key has a display
\* name, a column in the population table and a cell there that is a number, and
\* the census_population written is not blank.  So a state with no such record
\* (display name missing, column absent, cell empty, '*****' or no number) is
\* not written.
C4_OutputKeysHavePopulation ==
    Written => \A i \in RowIds :
        /\ Key(i) # "united_states"
        /\ \E rec \in KeyRecordsOf(Key(i)) : YieldsPopulation(rec)
        /\ Rows[i]["census_population"] # <<>>

\* A table is written with a row in it while a state of the key table whose
\* population cell is no number, and another whose display name is missing or
\* whose column is absent or empty or '*****', are left out.
C4_Witness ==
    /\ Written
    /\ RowIds # {}
    /\ \E n \in DOMAIN keys_df :
          /\ keys_df[n].key_row # "united_states"
          /\ keys_df[n].alternative_name \in DOMAIN census_pop_df
          /\ census_pop_df[keys_df[n].alternative_name] = NotANumber
          /\ \A i \in RowIds : Key(i) # keys_df[n].key_row
    /\ \E n \in DOMAIN keys_df :
          /\ keys_df[n].key_row # "united_states"
          /\ keys_df[n].alternative_name \notin DOMAIN census_pop_df
          /\ \A i \in RowIds : Key(i) # keys_df[n].key_row

(***************************************************************************)
(* C5                                                                      *)
(***************************************************************************)
\* C5: clean_dollar_amount gives 131000.0 for "$131K", 55000.0 for "$55,000" and
\* missing for "".
C5_DollarExamples ==
    pc = "dollar_done" =>
        /\ (fn_arg = Price131K => fn_ret = Float(131000))
        /\ (fn_arg = Price55000 => fn_ret = Float(55000))
        /\ (fn_arg = Text(<<>>) => fn_ret = NaN)

(***************************************************************************)
(* C6                                                                      *)
(***************************************************************************)
\* C6: no cell that is not a number makes the run abort with an exception.
C6_NeverAborts == pc # "raised"

(***************************************************************************)
(* C7                                                                      *)
(***************************************************************************)
\* C7: in a written row without an income (or without a sale price) the metric's
\* value, the metric's rank, the affordability ratio and the affordability rank
\* are all blank.
C7_MissingMetricIsBlank ==
    Written => \A i \in RowIds :
        /\ ~HasIncome(i) =>
              /\ Rows[i]["median_household_income"] = <<>>
              /\ Rows[i]["median_household_income_rank"] = <<>>
              /\ Rows[i]["house_affordability_ratio"] = <<>>
              /\ Rows[i]["house_affordability_rank"] = <<>>
        /\ ~HasPrice(i) =>
              /\ Rows[i]["median_sale_price_formatted"] = <<>>
              /\ Rows[i]["median_sale_price_rank"] = <<>>
              /\ Rows[i]["house_affordability_ratio"] = <<>>
              /\ Rows[i]["house_affordability_rank"] = <<>>

(***************************************************************************)
(* C8                                                                      *)
(***************************************************************************)
\* C8: the columns written are exactly these, in this order.
C8_OutputColumns ==
    Written => output_csv.header =
        <<"key_row", "census_population", "population_rank", "population_blurb",
          "median_household_income", "median_household_income_rank",
          "median_household_income_blurb", "median_sale_price",
          "median_sale_price_rank", "median_sale_price_blurb",
          "house_affordability_ratio", "house_affordability_rank",
          "house_affordability_blurb">>

(***************************************************************************)
(* C9                                                                      *)
(***************************************************************************)
\* C9: for every rank n >= 1 the rank string is n followed by "th" when n mod 100
\* is 11, 12 or 13, otherwise by "st", "nd" or "rd" when n mod 10 is 1, 2 or 3,
\* and by "th" in every other case.
C9_OrdinalSuffix ==
    pc = "ordinal_done" /\ fn_arg # NaN => fn_ret = Text(Ordinal(fn_arg.v))

\* 111 has been formatted, as 111th.
C9_Witness ==
    /\ pc = "ordinal_done"
    /\ fn_arg = Float(111)
    /\ fn_ret = Text(<<"1", "1", "1", "t", "h">>)

(***************************************************************************)
(* C10                                                                     *)
(***************************************************************************)
\* C10: the population_rank written is the rank of the state's population among
\* the written states, highest first: 1 plus the number of written states with a
\* strictly larger population.
C10_PopulationRankIsNumeric ==
    Written => \A i \in RowIds :
        Rows[i]["population_rank"] =
            Ordinal(1 + Cardinality({j \in RowIds : Population(j) > Population(i)}))

====
